---- MODULE Spec2Model ----
(***************************************************************************)
(* A model of thoonk's SortedFeed (src/thoonk/feeds/sorted_feed.py).       *)
(*                                                                         *)
(* The Redis keys of one feed are the shared state.  Every Redis command   *)
(* a method sends is one atomic step of the caller that sends it; a        *)
(* MULTI/EXEC pipeline is one command.  Several callers run methods of     *)
(* the same feed concurrently, each on its own connection.                 *)
(***************************************************************************)
EXTENDS Integers, Sequences, FiniteSets, TLC

\* Bounds of the model.
MaxId == 3
MaxCalls == 3

\* The concurrent callers, each with a connection of its own.
Procs == {1, 2}
Ids == 1..MaxId
Items == {"a", "b"}
\* Python's None: where an id is expected, and where a string is expected.
None == 0
NoItem == "None"

VARIABLES
    feed_ids,        \* Redis list  feed.ids:[feed]      (Order Store)
    feed_items,      \* Redis hash  feed.items:[feed]    (Item Store)
    feed_id_incr,    \* Redis int   feed.idincr:[feed]   (id_counter)
    feed_publishes,  \* Redis int   feed.publishes:[feed](publish_counter)
    feed_publish,    \* messages sent on feed.publish:[feed], in order
    feed_retract,    \* messages sent on feed.retract:[feed], in order
    pc,              \* per caller: position in the method it runs
    call,            \* per caller: the method it runs (or ran last)
    id,              \* per caller: local `id`
    rel_id,          \* per caller: local `rel_id` (insert anchor)
    method,          \* per caller: local `method` ("BEFORE" / "AFTER")
    item,            \* per caller: local `item`
    watch,           \* per caller: the connection's WATCH state
    result,          \* per caller: the call it runs or ran last, how it ended,
                     \* what it returned, how many pipelines it had discarded
    calls,           \* number of calls issued so far
    allocated,       \* history: the values INCR feed.idincr returned, in order
    discarded,       \* history: ids allocated by an insert that returned None
    seen             \* per caller: what its last get_ids, get_item and
                     \* get_items returned, and how many reads it has made

vars == <<feed_ids, feed_items, feed_id_incr, feed_publishes, feed_publish,
          feed_retract, pc, call, id, rel_id, method, item, watch, result,
          calls, allocated, discarded, seen>>

redis == <<feed_ids, feed_items, feed_id_incr, feed_publishes, feed_publish,
           feed_retract>>

(***************************************************************************)
(* Redis commands, as functions of the value stored at the key.            *)
(***************************************************************************)
\* INCR key
Incr(n) == n + 1

\* Mutant: the head insert pushes at the tail.
LPushAtTail(l, v) == l \o <<v>>

\* LPUSH key value
LPush(l, v) == <<v>> \o l

\* RPUSH key value
RPush(l, v) == l \o <<v>>

\* Index of the first occurrence of v in l, 0 when there is none.
IndexOf(l, v) ==
    IF \E i \in 1..Len(l) : l[i] = v
    THEN CHOOSE i \in 1..Len(l) : l[i] = v /\ \A j \in 1..(i - 1) : l[j] # v
    ELSE 0

\* Mutant: BEFORE and AFTER mixed up.
LInsertSwapped(l, where, pivot, v) ==
    LET i == IndexOf(l, pivot) IN
    IF i = 0 THEN l
    ELSE IF where = "AFTER"
         THEN SubSeq(l, 1, i - 1) \o <<v>> \o SubSeq(l, i, Len(l))
         ELSE SubSeq(l, 1, i) \o <<v>> \o SubSeq(l, i + 1, Len(l))

\* LINSERT key BEFORE|AFTER pivot value: next to the first pivot; nothing
\* is inserted when the pivot is not in the list.
LInsert(l, where, pivot, v) ==
    LET i == IndexOf(l, pivot) IN
    IF i = 0 THEN l
    ELSE IF where = "BEFORE"
         THEN SubSeq(l, 1, i - 1) \o <<v>> \o SubSeq(l, i, Len(l))
         ELSE SubSeq(l, 1, i) \o <<v>> \o SubSeq(l, i + 1, Len(l))

\* Mutant: the arguments of LREM in the other order -- the count is taken for
\* the value -- so the element at hand is not the one removed.
LRemCountFirst(l, v) ==
    LET i == IndexOf(l, 1) IN
    IF i = 0 THEN l
    ELSE SubSeq(l, 1, i - 1) \o SubSeq(l, i + 1, Len(l))

\* LREM key 1 value: removes the first occurrence of value.
LRem(l, v) ==
    LET i == IndexOf(l, v) IN
    IF i = 0 THEN l
    ELSE SubSeq(l, 1, i - 1) \o SubSeq(l, i + 1, Len(l))

\* HEXISTS key field
HExists(h, k) == k \in DOMAIN h

\* HSET key field value
HSet(h, k, v) == [x \in (DOMAIN h) \cup {k} |-> IF x = k THEN v ELSE h[x]]

\* HDEL key field
HDel(h, k) == [x \in (DOMAIN h) \ {k} |-> h[x]]

\* LRANGE key start stop: the elements at the 0-based positions start..stop,
\* a negative position counting from the end of the list.
\* Mutant: stop is taken as a Python slice bound, exclusive.
LRangeExclusive(l, start, stop) ==
    LET from == IF start < 0 THEN Len(l) + start ELSE start
        to == (IF stop < 0 THEN Len(l) + stop ELSE stop) - 1
        lo == IF from < 0 THEN 0 ELSE from
        hi == IF to > Len(l) - 1 THEN Len(l) - 1 ELSE to
    IN SubSeq(l, lo + 1, hi + 1)

LRange(l, start, stop) ==
    LET from == IF start < 0 THEN Len(l) + start ELSE start
        to == IF stop < 0 THEN Len(l) + stop ELSE stop
        lo == IF from < 0 THEN 0 ELSE from
        hi == IF to > Len(l) - 1 THEN Len(l) - 1 ELSE to
    IN SubSeq(l, lo + 1, hi + 1)

\* HGETALL key
HGetAll(h) == h

\* HGET key field (None when the field is missing)
HGet(h, k) == IF k \in DOMAIN h THEN h[k] ELSE NoItem

\* The publish message '%s\x00%s' % (id, item): two fields, id first.
PublishMsg(i, c) == <<i, c>>

\* The retract message: the id alone.
RetractMsg(i) == i

(***************************************************************************)
(* WATCH / EXEC.  A connection is "none" (watching nothing), "clean"       *)
(* (watching feed.items, untouched since WATCH) or "dirty" (touched).      *)
(***************************************************************************)
\* The id whose existence a call checks: the anchor of an insert, the target
\* of an edit or retract.
Target(p) == IF call[p] = "insert" THEN rel_id[p] ELSE id[p]

\* Mutant: the watch is taken to be per field -- only a connection whose call
\* checks the very id that was written is flagged.
TouchSameId(w, p) ==
    [q \in Procs |-> IF q = p THEN "none"
                     ELSE IF w[q] = "clean" /\ Target(q) = id[p] THEN "dirty"
                     ELSE w[q]]

\* After p's EXEC went through and wrote feed.items: p's watches are gone,
\* every other connection watching the key is flagged.
Touch(w, p) ==
    [q \in Procs |-> IF q = p THEN "none"
                     ELSE IF w[q] = "clean" THEN "dirty" ELSE w[q]]

\* Mutant: the pipeline runs on a connection that never saw the WATCH, so
\* EXEC always goes through.
WatchErrorNever(p) == FALSE

\* EXEC raises WatchError when the watched key was touched.
WatchError(p) == watch[p] = "dirty"

Init ==
    /\ feed_ids = <<>>
    /\ feed_items = <<>>
    /\ feed_id_incr = 0
    /\ feed_publishes = 0
    /\ feed_publish = <<>>
    /\ feed_retract = <<>>
    /\ pc = [p \in Procs |-> "idle"]
    /\ call = [p \in Procs |-> "none"]
    /\ id = [p \in Procs |-> None]
    /\ rel_id = [p \in Procs |-> None]
    /\ method = [p \in Procs |-> NoItem]
    /\ item = [p \in Procs |-> NoItem]
    /\ watch = [p \in Procs |-> "none"]
    /\ result = [p \in Procs |-> [call |-> "none", id |-> None, how |-> "none",
                                 ret |-> None, retries |-> 0]]
    /\ calls = 0
    /\ allocated = <<>>
    /\ discarded = {}
    /\ seen = [p \in Procs |-> [ids |-> <<>>, item |-> NoItem, items |-> <<>>,
                                reads |-> 0]]

\* A caller enters a method: its arguments and locals are set.
Enter(p, name, i, r, m, c, at) ==
    /\ pc[p] = "idle"
    /\ calls < MaxCalls
    /\ calls' = calls + 1
    /\ call' = [call EXCEPT ![p] = name]
    /\ id' = [id EXCEPT ![p] = i]
    /\ rel_id' = [rel_id EXCEPT ![p] = r]
    /\ method' = [method EXCEPT ![p] = m]
    /\ item' = [item EXCEPT ![p] = c]
    /\ result' = [result EXCEPT ![p] = [call |-> name, id |-> i, how |-> "running",
                                       ret |-> None, retries |-> 0]]
    /\ pc' = [pc EXCEPT ![p] = at]

\* A method returns `ret`; `how` records which return statement it took.
\* Its locals are gone with the frame.
Return(p, how, ret) ==
    /\ pc' = [pc EXCEPT ![p] = "idle"]
    /\ result' = [result EXCEPT ![p] = [result[p] EXCEPT !.how = how, !.ret = ret]]
    /\ call' = [call EXCEPT ![p] = "none"]
    /\ id' = [id EXCEPT ![p] = None]
    /\ rel_id' = [rel_id EXCEPT ![p] = None]
    /\ method' = [method EXCEPT ![p] = NoItem]
    /\ item' = [item EXCEPT ![p] = NoItem]

\* Mutant: the id is taken from the length of the list, not from INCR.
NextIdFromLength == Len(feed_ids) + 1

\* id = self.redis.incr(self.feed_id_incr)
NextId == Incr(feed_id_incr)

Allocate ==
    /\ feed_id_incr < MaxId
    /\ feed_id_incr' = NextId
    /\ allocated' = Append(allocated, NextId)
    /\ UNCHANGED seen

Goto(p, at) == pc' = [pc EXCEPT ![p] = at]

locals == <<call, id, rel_id, method, item>>
stores == <<feed_ids, feed_items, feed_publishes, feed_publish, feed_retract>>

(***************************************************************************)
(* publish / append / prepend: INCR, then one MULTI/EXEC pipeline.         *)
(***************************************************************************)
publish(p, c) ==
    /\ Enter(p, "publish", NextId, None, NoItem, c, "execute")
    /\ Allocate
    /\ UNCHANGED <<stores, watch, discarded>>

append(p, c) == publish(p, c)

publish_execute(p) ==
    /\ pc[p] = "execute" /\ call[p] = "publish"
    /\ feed_ids' = RPush(feed_ids, id[p])
    /\ feed_publishes' = Incr(feed_publishes)
    /\ feed_items' = HSet(feed_items, id[p], item[p])
    /\ feed_publish' = Append(feed_publish, PublishMsg(id[p], item[p]))
    /\ watch' = Touch(watch, p)
    /\ Return(p, "committed", id[p])
    /\ UNCHANGED <<feed_id_incr, feed_retract, calls, allocated, seen, discarded>>

prepend(p, c) ==
    /\ Enter(p, "prepend", NextId, None, NoItem, c, "execute")
    /\ Allocate
    /\ UNCHANGED <<stores, watch, discarded>>

prepend_execute(p) ==
    /\ pc[p] = "execute" /\ call[p] = "prepend"
    /\ feed_ids' = LPush(feed_ids, id[p])
    /\ feed_publishes' = Incr(feed_publishes)
    /\ feed_items' = HSet(feed_items, id[p], item[p])
    /\ feed_publish' = Append(feed_publish, PublishMsg(id[p], item[p]))
    /\ watch' = Touch(watch, p)
    /\ Return(p, "committed", id[p])
    /\ UNCHANGED <<feed_id_incr, feed_retract, calls, allocated, seen, discarded>>

(***************************************************************************)
(* The watch / check / execute loop shared by __insert, edit and retract.  *)
(***************************************************************************)
\* Mutant: the WATCH names another key, so writes to feed.items never flag
\* the connection.
WatchOtherKey(p) ==
    /\ pc[p] = "watch"
    /\ Goto(p, "check")
    /\ UNCHANGED <<redis, locals, watch, result, calls, allocated, seen, discarded>>

\* self.redis.watch(self.feed_items)
Watch(p) ==
    /\ pc[p] = "watch"
    /\ watch' = [watch EXCEPT ![p] = "clean"]
    /\ Goto(p, "check")
    /\ UNCHANGED <<redis, locals, result, calls, allocated, seen, discarded>>

\* self.redis.unwatch()
Unwatch(p) == watch' = [watch EXCEPT ![p] = "none"]

\* sorted_feed.py names `redis.exceptions.WatchError` in its except clauses
\* without importing redis: the name reaches the module, if at all, through
\* `from thoonk.exceptions import *` / `from thoonk.feeds import *`, modules
\* that are not part of the source at hand.  The specification has a write
\* conflict caught and retried, never surfaced to the caller; that is the
\* case of the name being bound.
RedisNameBound == TRUE

\* Mutant: the WatchError is not caught, the call ends with it.
RetryRaises(p) ==
    /\ Unwatch(p)
    /\ Return(p, "error", None)
    /\ UNCHANGED <<redis, calls, allocated, seen, discarded>>

\* Mutant: the pipeline is not transactional, its PUBLISH is sent although
\* the EXEC is refused.
RetryNotifies(p) ==
    /\ Unwatch(p)
    /\ Goto(p, "watch")
    /\ result' = [result EXCEPT ![p].retries = @ + 1]
    /\ feed_publish' = Append(feed_publish, PublishMsg(id[p], item[p]))
    /\ UNCHANGED <<feed_ids, feed_items, feed_id_incr, feed_publishes,
                   feed_retract, locals, calls, allocated, seen, discarded>>

\* except redis.exceptions.WatchError: pass -- and around the loop again
\* Mutant: the INCR of feed.idincr sits inside the loop, so every new
\* attempt of an insert takes a new id.
RetryReallocates(p) ==
    /\ Unwatch(p)
    /\ Goto(p, "watch")
    /\ result' = [result EXCEPT ![p].retries = @ + 1]
    /\ feed_id_incr' = NextId
    /\ allocated' = Append(allocated, NextId)
    /\ id' = [id EXCEPT ![p] = NextId]
    /\ discarded' = discarded \cup {id[p]}
    /\ UNCHANGED seen
    /\ UNCHANGED <<stores, call, rel_id, method, item, calls>>

\* Mutant: after a WatchError the pipeline is sent again as it was built,
\* without a new WATCH and a new check.
RetryNoRecheck(p) ==
    /\ Unwatch(p)
    /\ Goto(p, "execute")
    /\ result' = [result EXCEPT ![p].retries = @ + 1]
    /\ UNCHANGED <<redis, locals, calls, allocated, seen, discarded>>

\* Mutant: the pipeline is not transactional -- the LINSERT queued first is
\* applied although the EXEC is refused.
RetryKeepsInsert(p) ==
    /\ Unwatch(p)
    /\ Goto(p, "watch")
    /\ result' = [result EXCEPT ![p].retries = @ + 1]
    /\ feed_ids' = IF call[p] = "insert"
                   THEN LInsert(feed_ids, method[p], rel_id[p], id[p])
                   ELSE feed_ids
    /\ UNCHANGED <<feed_items, feed_id_incr, feed_publishes, feed_publish,
                   feed_retract, locals, calls, allocated, seen, discarded>>

\* except redis.exceptions.WatchError: pass -- the refused EXEC has dropped
\* the watch.  With the name `redis` bound the loop starts over; with the
\* name unbound evaluating the except clause raises NameError and the call
\* ends with it.
Retry(p) ==
    /\ Unwatch(p)
    /\ IF RedisNameBound
       THEN /\ Goto(p, "watch")
            /\ result' = [result EXCEPT ![p].retries = @ + 1]
            /\ UNCHANGED locals
       ELSE Return(p, "error", None)
    /\ UNCHANGED <<redis, calls, allocated, seen, discarded>>

(***************************************************************************)
(* __insert, publish_before, publish_after                                 *)
(***************************************************************************)
__insert(p, c, r, m) ==
    /\ Enter(p, "insert", NextId, r, m, c, "watch")
    /\ Allocate
    /\ UNCHANGED <<stores, watch, discarded>>

publish_before(p, before_id, c) == __insert(p, c, before_id, "BEFORE")

publish_after(p, after_id, c) == __insert(p, c, after_id, "AFTER")

insert_watch(p) == call[p] = "insert" /\ Watch(p)

\* Mutant: the unused id is given back -- the counter is decremented on the
\* no-op path.
insert_check_rollback(p) ==
    /\ pc[p] = "check" /\ call[p] = "insert"
    /\ IF ~HExists(feed_items, rel_id[p])
       THEN /\ Goto(p, "unwatch")
            /\ feed_id_incr' = feed_id_incr - 1
       ELSE /\ Goto(p, "execute")
            /\ UNCHANGED feed_id_incr
    /\ UNCHANGED <<stores, locals, watch, result, calls, allocated, seen, discarded>>

\* if not self.redis.hexists(self.feed_items, rel_id): one round trip; the
\* UNWATCH of the no-op branch is the next.
insert_check(p) ==
    /\ pc[p] = "check" /\ call[p] = "insert"
    /\ IF ~HExists(feed_items, rel_id[p])
       THEN Goto(p, "unwatch")
       ELSE Goto(p, "execute")
    /\ UNCHANGED <<redis, locals, watch, result, calls, allocated, seen, discarded>>

\* self.redis.unwatch(); return -- the id taken on entry is never used.
insert_unwatch(p) ==
    /\ pc[p] = "unwatch" /\ call[p] = "insert"
    /\ Unwatch(p)
    /\ Return(p, "noop", None)
    /\ discarded' = discarded \cup {id[p]}
    /\ UNCHANGED <<redis, calls, allocated, seen>>

insert_execute(p) ==
    /\ pc[p] = "execute" /\ call[p] = "insert"
    /\ IF WatchError(p)
       THEN Retry(p)
       ELSE /\ feed_ids' = LInsert(feed_ids, method[p], rel_id[p], id[p])
            /\ feed_items' = HSet(feed_items, id[p], item[p])
            /\ feed_publish' = Append(feed_publish, PublishMsg(id[p], item[p]))
            /\ watch' = Touch(watch, p)
            /\ Return(p, "committed", id[p])
            /\ UNCHANGED <<feed_id_incr, feed_publishes, feed_retract,
                           calls, allocated, seen, discarded>>

(***************************************************************************)
(* edit                                                                    *)
(***************************************************************************)
edit(p, i, c) ==
    /\ Enter(p, "edit", i, None, NoItem, c, "watch")
    /\ UNCHANGED <<redis, watch, allocated, seen, discarded>>

edit_watch(p) == call[p] = "edit" /\ Watch(p)

\* Mutant: the existence check is left out, the pipeline is always built.
edit_check_always(p) ==
    /\ pc[p] = "check" /\ call[p] = "edit"
    /\ Goto(p, "execute")
    /\ UNCHANGED <<redis, locals, watch, result, calls, allocated, seen, discarded>>

edit_check(p) ==
    /\ pc[p] = "check" /\ call[p] = "edit"
    /\ IF ~HExists(feed_items, id[p])
       THEN Goto(p, "unwatch")
       ELSE Goto(p, "execute")
    /\ UNCHANGED <<redis, locals, watch, result, calls, allocated, seen, discarded>>

\* self.redis.unwatch(); return
edit_unwatch(p) ==
    /\ pc[p] = "unwatch" /\ call[p] = "edit"
    /\ Unwatch(p)
    /\ Return(p, "noop", None)
    /\ UNCHANGED <<redis, calls, allocated, seen, discarded>>

\* Mutant: the pipeline of edit without its INCR of feed.publishes.
edit_execute_noincr(p) ==
    /\ pc[p] = "execute" /\ call[p] = "edit"
    /\ IF WatchError(p)
       THEN Retry(p)
       ELSE /\ feed_items' = HSet(feed_items, id[p], item[p])
            /\ feed_publish' = Append(feed_publish, PublishMsg(id[p], item[p]))
            /\ watch' = Touch(watch, p)
            /\ Return(p, "committed", None)
            /\ UNCHANGED <<feed_ids, feed_id_incr, feed_publishes, feed_retract,
                           calls, allocated, seen, discarded>>

edit_execute(p) ==
    /\ pc[p] = "execute" /\ call[p] = "edit"
    /\ IF WatchError(p)
       THEN Retry(p)
       ELSE /\ feed_items' = HSet(feed_items, id[p], item[p])
            /\ feed_publishes' = Incr(feed_publishes)
            /\ feed_publish' = Append(feed_publish, PublishMsg(id[p], item[p]))
            /\ watch' = Touch(watch, p)
            /\ Return(p, "committed", None)
            /\ UNCHANGED <<feed_ids, feed_id_incr, feed_retract,
                           calls, allocated, seen, discarded>>

(***************************************************************************)
(* retract                                                                 *)
(***************************************************************************)
retract(p, i) ==
    /\ Enter(p, "retract", i, None, NoItem, NoItem, "watch")
    /\ UNCHANGED <<redis, watch, allocated, seen, discarded>>

retract_watch(p) == call[p] = "retract" /\ Watch(p)

\* Mutant: the existence check is left out, the pipeline is always built.
retract_check_always(p) ==
    /\ pc[p] = "check" /\ call[p] = "retract"
    /\ Goto(p, "execute")
    /\ UNCHANGED <<redis, locals, watch, result, calls, allocated, seen, discarded>>

retract_check(p) ==
    /\ pc[p] = "check" /\ call[p] = "retract"
    /\ IF HExists(feed_items, id[p])
       THEN Goto(p, "execute")
       ELSE Goto(p, "unwatch")
    /\ UNCHANGED <<redis, locals, watch, result, calls, allocated, seen, discarded>>

\* else: self.redis.unwatch(); return
retract_unwatch(p) ==
    /\ pc[p] = "unwatch" /\ call[p] = "retract"
    /\ Unwatch(p)
    /\ Return(p, "noop", None)
    /\ UNCHANGED <<redis, calls, allocated, seen, discarded>>

retract_execute(p) ==
    /\ pc[p] = "execute" /\ call[p] = "retract"
    /\ IF WatchError(p)
       THEN Retry(p)
       ELSE /\ feed_ids' = LRem(feed_ids, id[p])
            /\ feed_items' = HDel(feed_items, id[p])
            /\ feed_retract' = Append(feed_retract, RetractMsg(id[p]))
            /\ watch' = Touch(watch, p)
            /\ Return(p, "committed", None)
            /\ UNCHANGED <<feed_id_incr, feed_publishes, feed_publish,
                           calls, allocated, seen, discarded>>

Next ==
    \E p \in Procs :
        \/ \E c \in Items : publish(p, c)
        \/ \E c \in Items : append(p, c)
        \/ publish_execute(p)
        \/ \E c \in Items : prepend(p, c)
        \/ prepend_execute(p)
        \/ \E r \in Ids, c \in Items : publish_before(p, r, c)
        \/ \E r \in Ids, c \in Items : publish_after(p, r, c)
        \/ insert_watch(p)
        \/ insert_check(p)
        \/ insert_unwatch(p)
        \/ insert_execute(p)
        \/ \E i \in Ids, c \in Items : edit(p, i, c)
        \/ edit_watch(p)
        \/ edit_check(p)
        \/ edit_unwatch(p)
        \/ edit_execute(p)
        \/ \E i \in Ids : retract(p, i)
        \/ retract_watch(p)
        \/ retract_check(p)
        \/ retract_unwatch(p)
        \/ retract_execute(p)

Spec == Init /\ [][Next]_vars

\* The steps of a call that is under way: every one is a blocking round trip
\* to Redis that returns, so a caller that is inside a call keeps stepping.
Step(p) ==
    \/ publish_execute(p)
    \/ prepend_execute(p)
    \/ insert_watch(p)
    \/ insert_check(p)
    \/ insert_unwatch(p)
    \/ insert_execute(p)
    \/ edit_watch(p)
    \/ edit_check(p)
    \/ edit_unwatch(p)
    \/ edit_execute(p)
    \/ retract_watch(p)
    \/ retract_check(p)
    \/ retract_unwatch(p)
    \/ retract_execute(p)

FairSpec == Spec /\ \A p \in Procs : WF_vars(Step(p))

(***************************************************************************)
(* A SortedFeed object created for a feed that already holds two items     *)
(* (published earlier as ids 1 and 2, their notifications long delivered). *)
(***************************************************************************)
FeedInit ==
    /\ feed_ids = <<1, 2>>
    /\ feed_items = <<"a", "b">>
    /\ feed_id_incr = 2
    /\ feed_publishes = 2
    /\ feed_publish = <<>>
    /\ feed_retract = <<>>
    /\ pc = [p \in Procs |-> "idle"]
    /\ call = [p \in Procs |-> "none"]
    /\ id = [p \in Procs |-> None]
    /\ rel_id = [p \in Procs |-> None]
    /\ method = [p \in Procs |-> NoItem]
    /\ item = [p \in Procs |-> NoItem]
    /\ watch = [p \in Procs |-> "none"]
    /\ result = [p \in Procs |-> [call |-> "none", id |-> None, how |-> "none",
                                 ret |-> None, retries |-> 0]]
    /\ calls = 0
    /\ allocated = <<1, 2>>
    /\ discarded = {}
    /\ seen = [p \in Procs |-> [ids |-> <<>>, item |-> NoItem, items |-> <<>>,
                                reads |-> 0]]

FeedSpec == FeedInit /\ [][Next]_vars

(***************************************************************************)
(* get_ids, get_item, get_items: one Redis command each, no pipeline.      *)
(***************************************************************************)
\* A call that is a single command: entered and returned in one step.
ReadCall(p, name, i) ==
    /\ pc[p] = "idle"
    /\ calls < MaxCalls
    /\ calls' = calls + 1
    /\ result' = [result EXCEPT ![p] = [call |-> name, id |-> i, how |-> "returned",
                                       ret |-> None, retries |-> 0]]
    /\ UNCHANGED <<redis, pc, locals, watch, allocated, discarded>>

get_ids(p) ==
    /\ ReadCall(p, "get_ids", None)
    /\ seen' = [seen EXCEPT ![p].ids = LRange(feed_ids, 0, -1), ![p].reads = @ + 1]

get_item(p, i) ==
    /\ ReadCall(p, "get_item", i)
    /\ seen' = [seen EXCEPT ![p].item = HGet(feed_items, i), ![p].reads = @ + 1]

get_items(p) ==
    /\ ReadCall(p, "get_items", None)
    /\ seen' = [seen EXCEPT ![p].items = HGetAll(feed_items), ![p].reads = @ + 1]

\* Mutations and reads, interleaved.
NextWithReads ==
    \/ Next
    \/ \E p \in Procs :
          \/ get_ids(p)
          \/ \E i \in Ids : get_item(p, i)
          \/ get_items(p)

\* Callers mutating and reading a feed that already holds two items.
ReadSpec == FeedInit /\ [][NextWithReads]_vars

(***************************************************************************)
(* Vocabulary of the properties.                                           *)
(***************************************************************************)
Range(s) == {s[i] : i \in DOMAIN s}

\* The ids a sequence of publish messages is about.
PublishedIds == {feed_publish[i][1] : i \in DOMAIN feed_publish}

Inserts == {"publish", "prepend", "insert"}

\* Caller p takes this step.
Steps(p) == pc'[p] # pc[p] \/ result'[p] # result[p]

\* In this step caller p's call returns after its pipeline went through.
Commits(p) == result[p].how = "running" /\ result'[p].how = "committed"

\* In this step caller p's call returns on a failed existence check.
NoOps(p) == result[p].how = "running" /\ result'[p].how = "noop"

\* In this step caller p's existence check fails: HEXISTS replied 0 and the
\* call is left with its UNWATCH and its return.
GivesUp(p) == pc[p] = "check" /\ pc'[p] = "unwatch"

\* In this step caller p's pipeline is discarded on a WatchError.
Conflicts(p) == result'[p].retries = result[p].retries + 1

\* C1 -- Invariant I1: in every state between two committed transactions
\* the set of ids in the Order Store (feed.ids) equals the key set of the
\* Item Store (feed.items).
C1_OrderMatchesItems == Range(feed_ids) = DOMAIN feed_items

\* A relative insert and a retract have both committed, and the feed still
\* holds items.
C1_Witness ==
    /\ \E p \in Procs : result[p].call = "insert" /\ result[p].how = "committed"
    /\ feed_retract # <<>>
    /\ feed_ids # <<>>

\* C2 -- Id monotonicity: the ids INCR hands out are strictly increasing in
\* allocation order (hence pairwise distinct), the counter never decreases,
\* a call keeps the id it allocated through every retry, and an id held by a
\* running call was neither discarded nor handed to another running call.
C2_IdMonotonic ==
    /\ [](\A i, j \in DOMAIN allocated : i < j => allocated[i] < allocated[j])
    /\ [](\A p, q \in Procs :
            (/\ p # q
             /\ pc[p] # "idle" /\ call[p] \in Inserts
             /\ pc[q] # "idle" /\ call[q] \in Inserts) => id[p] # id[q])
    /\ [](\A p \in Procs :
            (pc[p] # "idle" /\ call[p] \in Inserts) => id[p] \notin discarded)
    /\ [][feed_id_incr' >= feed_id_incr]_vars
    /\ [][\A p \in Procs :
            (pc[p] # "idle" /\ pc'[p] # "idle") => id'[p] = id[p]]_vars
    /\ [][\A p \in Procs :
            (Commits(p) /\ call[p] \in Inserts) => result'[p].ret = id[p]]_vars

\* An insert whose id was discarded, then two more allocations: three ids
\* handed out, the first never stored.
C2_Witness ==
    /\ Len(allocated) = 3
    /\ allocated[1] \in discarded
    /\ \E p \in Procs : pc[p] = "watch" /\ call[p] = "insert" /\ id[p] = allocated[3]

\* C3 -- Notifications: a step in which a call commits appends exactly one
\* message to that call's channel (feed.publish for publish, prepend, insert
\* and edit; feed.retract for retract) and leaves the other channel alone;
\* every other step -- a discarded pipeline, a failed existence check, a
\* WATCH, an INCR -- sends nothing.
C3_NotifyOncePerCommit ==
    [][\A p \in Procs :
         /\ (Commits(p) /\ call[p] # "retract") =>
                /\ feed_publish' = Append(feed_publish, PublishMsg(id[p], item[p]))
                /\ feed_retract' = feed_retract
         /\ (Commits(p) /\ call[p] = "retract") =>
                /\ feed_retract' = Append(feed_retract, RetractMsg(id[p]))
                /\ feed_publish' = feed_publish
         /\ (\A q \in Procs : ~Commits(q)) =>
                /\ feed_publish' = feed_publish
                /\ feed_retract' = feed_retract]_vars

\* An edit that lost a race, retried and found its target gone: one publish
\* message (the original publish) and one retract message, none for the edit.
C3_Witness ==
    /\ \E p \in Procs : /\ result[p].call = "edit" /\ result[p].how = "noop"
                        /\ result[p].retries = 1
    /\ \E p \in Procs : result[p].call = "retract" /\ result[p].how = "committed"
    /\ Len(feed_publish) = 1
    /\ Len(feed_retract) = 1

\* The content of the last publish message about id i (None without one).
LastPublished(i) ==
    LET at == {k \in DOMAIN feed_publish : feed_publish[k][1] = i} IN
    IF at = {} THEN NoItem
    ELSE feed_publish[CHOOSE k \in at : \A j \in at : j <= k][2]

\* C4 -- edit(i, A) racing retract(i): whenever one caller's call is an edit
\* and another's a retract of the same id, the id is in feed.ids exactly when
\* it is in feed.items; once the retract has committed the id is in neither,
\* until then an edit that committed left it in both with the content last
\* published; an edit commits only onto an id that is in feed.items at that
\* instant (an edit whose check passed before the retract committed writes
\* nothing back); a retract whose check finds the id in feed.items goes on
\* to its pipeline, and when a retract commits, or returns from an id that
\* was retracted already, the id is in neither store.
C4_EditRetractRace ==
    /\ [](\A p, q \in Procs :
            (/\ p # q
             /\ result[p].call = "edit"
             /\ result[q].call = "retract"
             /\ result[p].id = result[q].id) =>
            LET i == result[p].id IN
            /\ i \in Range(feed_ids) <=> i \in DOMAIN feed_items
            /\ i \in Range(feed_retract) =>
                   i \notin DOMAIN feed_items /\ i \notin Range(feed_ids)
            /\ (result[p].how = "committed" /\ i \notin Range(feed_retract)) =>
                   /\ i \in DOMAIN feed_items
                   /\ i \in Range(feed_ids)
                   /\ feed_items[i] = LastPublished(i))
    /\ [][\A p \in Procs :
            (Commits(p) /\ call[p] = "edit") =>
                /\ id[p] \in DOMAIN feed_items
                /\ id[p] \in Range(feed_ids')
                /\ feed_items'[id[p]] = item[p]]_vars
    /\ [][\A q \in Procs :
            (Steps(q) /\ call[q] = "retract" /\ pc[q] = "check") =>
                (GivesUp(q) <=> id[q] \notin DOMAIN feed_items)]_vars
    /\ [][\A q \in Procs :
            (/\ call[q] = "retract" /\ pc[q] # "idle" /\ pc'[q] = "idle"
             /\ Commits(q) \/ id[q] \in Range(feed_retract)) =>
                /\ id[q] \notin DOMAIN feed_items'
                /\ id[q] \notin Range(feed_ids')]_vars

\* The edit passed its check, the retract committed first, the edit's
\* pipeline was discarded and its second check found the id gone.
C4_Witness ==
    \E p, q \in Procs :
        /\ result[p].call = "edit" /\ result[p].how = "noop"
        /\ result[p].retries = 1
        /\ result[q].call = "retract" /\ result[q].how = "committed"
        /\ result[q].id = result[p].id
        /\ result[p].id \in PublishedIds
        /\ result[p].id \notin DOMAIN feed_items
        /\ result[p].id \notin Range(feed_ids)

\* C5 -- relative insert: in the step in which publish_before(anchor, c)
\* commits, the new id lands immediately before the first occurrence of
\* anchor in feed.ids, for publish_after immediately after it; taking the
\* new id out again gives the list as it was; feed.items maps the new id to
\* c; the call returns the new id.
C5_RelativeInsert ==
    [][\A p \in Procs :
         (Commits(p) /\ call[p] = "insert") =>
         LET new == id[p]
             a == rel_id[p]
             old == feed_ids
             now == feed_ids'
         IN
         /\ new \notin Range(old)
         /\ Len(now) = Len(old) + 1
         /\ \E k \in DOMAIN now :
               /\ now[k] = new
               /\ \A j \in 1..(k - 1) : now[j] = old[j]
               /\ \A j \in (k + 1)..Len(now) : now[j] = old[j - 1]
               /\ method[p] = "BEFORE" =>
                      /\ k < Len(now) /\ now[k + 1] = a
                      /\ \A j \in 1..(k - 1) : old[j] # a
               /\ method[p] = "AFTER" =>
                      /\ k > 1 /\ now[k - 1] = a
                      /\ \A j \in 1..(k - 2) : old[j] # a
         /\ new \in DOMAIN feed_items' /\ feed_items'[new] = item[p]
         /\ result'[p].ret = new]_vars

\* publish -> 1, publish -> 2, publish_before(2, c) -> 3 gives [1, 3, 2].
C5_Witness ==
    /\ feed_ids = <<1, 3, 2>>
    /\ \E p \in Procs : /\ result[p].call = "insert" /\ result[p].how = "committed"
                        /\ result[p].ret = 3
    /\ DOMAIN feed_items = {1, 2, 3}

\* C6 -- head and tail insertion: in the step in which a prepend commits
\* its id becomes the first element of feed.ids and the rest is the list as
\* it was; in the step in which a publish (or append, which is publish)
\* commits its id becomes the last element and the front is the list as it
\* was; either way the call returns that id.
C6_HeadTailInsert ==
    [][\A p \in Procs :
         /\ (Commits(p) /\ call[p] = "prepend") =>
                /\ feed_ids' # <<>>
                /\ Head(feed_ids') = id[p]
                /\ Tail(feed_ids') = feed_ids
                /\ result'[p].ret = id[p]
         /\ (Commits(p) /\ call[p] = "publish") =>
                /\ feed_ids' # <<>>
                /\ feed_ids'[Len(feed_ids')] = id[p]
                /\ SubSeq(feed_ids', 1, Len(feed_ids') - 1) = feed_ids
                /\ result'[p].ret = id[p]]_vars

\* Two prepends and nothing else, the first returned 1 and the second 2:
\* get_ids() is [2, 1].
C6_Witness ==
    /\ calls = 2
    /\ \A q \in Procs : result[q].call \in {"none", "prepend"}
    /\ \A q \in Procs : pc[q] = "idle"
    /\ \E p \in Procs : result[p].how = "committed" /\ result[p].ret = 2
    /\ feed_ids = <<2, 1>>

\* C7 -- retract: in the step in which retract(i) commits, i was in both
\* stores and is in neither (get_item(i) finds nothing); feed.ids is the old
\* list without i, the other ids in their old order; every other id keeps
\* its content; neither counter moves; the one message sent is i alone, on
\* feed.retract.
C7_Retract ==
    [][\A q \in Procs :
         (Commits(q) /\ call[q] = "retract") =>
         LET i == id[q]
             Keep(x) == x # i
         IN
         /\ i \in Range(feed_ids) /\ i \in DOMAIN feed_items
         /\ i \notin Range(feed_ids')
         /\ HGet(feed_items', i) = NoItem
         /\ feed_ids' = SelectSeq(feed_ids, Keep)
         /\ Len(feed_ids') = Len(feed_ids) - 1
         /\ DOMAIN feed_items' = (DOMAIN feed_items) \ {i}
         /\ \A j \in DOMAIN feed_items' : feed_items'[j] = feed_items[j]
         /\ feed_id_incr' = feed_id_incr
         /\ feed_publishes' = feed_publishes
         /\ feed_publish' = feed_publish
         /\ feed_retract' = feed_retract \o <<i>>]_vars

\* On the feed [1, 2]: publish_before(2, c) -> 3 gives [1, 3, 2], then
\* retract(3) gives [1, 2] again and get_item(3) finds nothing.
C7_Witness ==
    /\ feed_ids = <<1, 2>>
    /\ feed_retract = <<3>>
    /\ PublishedIds = {3}
    /\ HGet(feed_items, 3) = NoItem
    /\ \E q \in Procs : /\ result[q].call = "retract" /\ result[q].how = "committed"
                        /\ result[q].id = 3

Targeted == {"edit", "retract"}

\* C8 -- silent no-op on a missing target: an edit or retract whose check
\* runs when its id is not in feed.items gives up there, and its next step
\* releases the watch and returns nothing; and no step of an edit or retract other than its commit
\* -- entering, WATCH, the check, a discarded pipeline -- changes any key or
\* sends any message, so the call, however often repeated, leaves the feed
\* as it was.
C8_SilentNoOp ==
    [][\A p \in Procs :
         /\ (Steps(p) /\ pc[p] = "check" /\ call[p] \in Targeted) =>
                (GivesUp(p) <=> id[p] \notin DOMAIN feed_items)
         /\ (Steps(p) /\ pc[p] = "unwatch" /\ call[p] \in Targeted) => NoOps(p)
         /\ (NoOps(p) /\ call[p] \in Targeted) =>
                /\ result'[p].ret = None
                /\ watch'[p] = "none"
                /\ pc'[p] = "idle"
         /\ (/\ Steps(p)
             /\ call[p] \in Targeted \/ call'[p] \in Targeted
             /\ ~Commits(p)) => UNCHANGED redis]_vars

\* edit and retract of an id that was never allocated, three calls in all:
\* each returned nothing and the feed is as it was at the start.
C8_Witness ==
    /\ calls = 3
    /\ \E p, q \in Procs :
          /\ result[p].call = "edit" /\ result[p].how = "noop"
          /\ result[q].call = "retract" /\ result[q].how = "noop"
          /\ result[p].id > feed_id_incr
          /\ result[q].id > feed_id_incr
    /\ feed_ids = <<>> /\ feed_items = <<>>
    /\ feed_id_incr = 0 /\ feed_publishes = 0
    /\ feed_publish = <<>> /\ feed_retract = <<>>

\* C9 -- gap property: a relative insert draws its id from the counter on
\* entry (the counter goes up by one); if its check finds the anchor missing
\* it gives up and returns None on its next step, writes no key but the counter it already advanced, sends
\* nothing and leaves the counter where it is; a discarded id is in no store
\* and no message, ever, and every later allocation is above it.
C9_Gap ==
    /\ [](\A d \in discarded :
            /\ d \notin Range(feed_ids)
            /\ d \notin DOMAIN feed_items
            /\ d \notin PublishedIds
            /\ d \notin Range(feed_retract)
            /\ d <= feed_id_incr)
    /\ [][\A p \in Procs :
            /\ (Steps(p) /\ call'[p] = "insert" /\ pc[p] = "idle") =>
                   /\ feed_id_incr' = feed_id_incr + 1
                   /\ id'[p] = feed_id_incr'
            /\ (Steps(p) /\ pc[p] = "check" /\ call[p] = "insert") =>
                   /\ GivesUp(p) <=> rel_id[p] \notin DOMAIN feed_items
                   /\ UNCHANGED redis
            /\ (Steps(p) /\ pc[p] = "unwatch" /\ call[p] = "insert") => NoOps(p)
            /\ (NoOps(p) /\ call[p] = "insert") =>
                   /\ result'[p].ret = None
                   /\ UNCHANGED redis
                   /\ id[p] \in discarded'
                   /\ id[p] <= feed_id_incr']_vars
    /\ [][feed_id_incr' # feed_id_incr =>
            \A d \in discarded : feed_id_incr' > d]_vars

\* publish_before on a missing anchor threw id 1 away; a later publish got
\* id 2 and stored it.
C9_Witness ==
    /\ discarded = {1}
    /\ feed_id_incr = 2
    /\ feed_ids = <<2>>
    /\ DOMAIN feed_items = {2}
    /\ feed_publishes = 1

\* C10 -- the retry loop: a call ends only by committing or by a failed
\* existence check, a discarded pipeline sends the caller back to WATCH
\* inside the same call, and, with finitely many calls issued and every
\* caller that is inside a call taking its steps, every call returns.
C10_RetryTerminates ==
    /\ [][\A p \in Procs :
            /\ (pc[p] # "idle" /\ pc'[p] = "idle") => (Commits(p) \/ NoOps(p))
            /\ Conflicts(p) =>
                   /\ pc'[p] = "watch"
                   /\ result'[p].how = "running"
                   /\ UNCHANGED redis]_vars
    /\ \A p \in Procs : (pc[p] # "idle") ~> (pc[p] = "idle")

\* A retract whose first pipeline was discarded committed on its second
\* attempt.
C10_Witness ==
    \E p \in Procs :
        /\ result[p].call = "retract"
        /\ result[p].how = "committed"
        /\ result[p].retries = 1
        /\ pc[p] = "idle"

Optimistic == {"insert", "edit", "retract"}

\* C11 -- compare-and-swap commit.  WATCH leaves the connection clean; a
\* clean connection is flagged exactly by another caller's commit, whatever
\* id that commit wrote; an attempt of publish_before, publish_after, edit
\* or retract that reaches EXEC commits exactly when its connection is still
\* clean; a flagged attempt changes no key and sends nothing, keeps its
\* locals and goes back to WATCH; and each check reads feed.items as it is
\* when the check runs.
C11_CompareAndSwap ==
    [][\A p \in Procs :
         /\ (pc[p] = "watch" /\ pc'[p] = "check") => watch'[p] = "clean"
         /\ (watch[p] = "clean" /\ \E q \in Procs \ {p} : Commits(q)) =>
                watch'[p] = "dirty"
         /\ (watch[p] # "dirty" /\ watch'[p] = "dirty") =>
                \E q \in Procs \ {p} : Commits(q)
         /\ (Steps(p) /\ pc[p] = "execute" /\ call[p] \in Optimistic) =>
                /\ Commits(p) <=> watch[p] = "clean"
                /\ ~Commits(p) =>
                       /\ Conflicts(p)
                       /\ UNCHANGED <<redis, locals>>
                       /\ pc'[p] = "watch"
         /\ (Steps(p) /\ pc[p] = "check" /\ call[p] \in Optimistic) =>
                /\ pc'[p] = "execute" <=> Target(p) \in DOMAIN feed_items
                /\ pc'[p] # "execute" => GivesUp(p)
                /\ UNCHANGED redis
         /\ (Steps(p) /\ pc[p] = "unwatch") => NoOps(p) /\ UNCHANGED redis]_vars

\* An edit whose first pipeline was discarded because another caller
\* committed an item under another id, and whose second went through.
C11_Witness ==
    \E p, q \in Procs :
        /\ result[p].call = "edit" /\ result[p].how = "committed"
        /\ result[p].retries = 1
        /\ result[q].call \in Inserts /\ result[q].how = "committed"
        /\ result[q].id # result[p].id
        /\ result[p].id \in DOMAIN feed_items
        /\ result[q].id \in DOMAIN feed_items

\* C12 -- effect and frame of edit: in the step in which edit(i, c) commits,
\* i was in feed.items and now maps to c; feed.publishes grows by exactly
\* one; the one message sent is (i, c) on feed.publish, built as a publish
\* builds it; feed.ids (so the position of i), feed.idincr, feed.retract,
\* the key set of feed.items and the content of every other id are as they
\* were.
C12_EditEffect ==
    [][\A p \in Procs :
         (Commits(p) /\ call[p] = "edit") =>
         LET i == id[p]
             c == item[p]
         IN
         /\ i \in DOMAIN feed_items
         /\ HGet(feed_items', i) = c
         /\ DOMAIN feed_items' = DOMAIN feed_items
         /\ \A j \in DOMAIN feed_items \ {i} : feed_items'[j] = feed_items[j]
         /\ feed_publishes' = feed_publishes + 1
         /\ feed_publish' = feed_publish \o <<PublishMsg(i, c)>>
         /\ feed_ids' = feed_ids
         /\ feed_id_incr' = feed_id_incr
         /\ feed_retract' = feed_retract]_vars

\* publish("a") -> 1, publish("a") -> 2, edit(1, "b"): the order is still
\* [1, 2], id 2 still holds "a", three publish events were counted.
C12_Witness ==
    /\ \E p \in Procs : /\ result[p].call = "edit" /\ result[p].how = "committed"
                        /\ result[p].id = 1
    /\ feed_ids = <<1, 2>>
    /\ feed_items = <<"b", "a">>
    /\ feed_publish = <<PublishMsg(1, "a"), PublishMsg(2, "a"), PublishMsg(1, "b")>>
    /\ feed_publishes = 3
    /\ feed_id_incr = 2

\* In this step caller p enters a method that allocates an id.
EntersInsert(p) == pc[p] = "idle" /\ pc'[p] # "idle" /\ call'[p] \in Inserts

\* C13 -- one allocation per call: the step in which a publish (append),
\* prepend, publish_before or publish_after is entered advances feed.idincr
\* by exactly one and gives the call the new value as its id; no other step
\* of any call -- a WATCH, a check, a discarded or committed pipeline of any
\* method, a get_ids, get_item or get_items -- changes feed.idincr; so the
\* counter is the number of ids handed out, and an insert that commits,
\* after however many retries, returns the id it was given on entry.
C13_OneAllocationPerCall ==
    /\ [][\A p \in Procs :
            EntersInsert(p) =>
                /\ feed_id_incr' = feed_id_incr + 1
                /\ id'[p] = feed_id_incr'
                /\ result'[p].id = feed_id_incr']_vars
    /\ [][feed_id_incr' # feed_id_incr => \E p \in Procs : EntersInsert(p)]_vars
    /\ [][\A p \in Procs :
            (Commits(p) /\ call[p] \in Inserts) =>
                /\ id[p] = result[p].id
                /\ result'[p].ret = result[p].id
                /\ result'[p].id = result[p].id]_vars
    /\ [][\A p \in Procs :
            result'[p].call \in (Targeted \cup {"get_ids", "get_item", "get_items"})
            /\ result'[p] # result[p] => feed_id_incr' = feed_id_incr]_vars
    /\ [](feed_id_incr = Len(allocated))

\* On the feed [1, 2]: publish_after(1, c) was given id 3, lost its first
\* EXEC to an edit, retried and committed as 3; the counter stands at 3 after
\* a get_ids as well.
C13_Witness ==
    \E p, q \in Procs :
        /\ result[p].call = "insert" /\ result[p].how = "committed"
        /\ result[p].retries = 1 /\ result[p].ret = 3
        /\ result[q].call = "get_ids"
        /\ seen[q].ids = <<1, 3, 2>>
        /\ feed_id_incr = 3

\* C14 -- feed.publishes counts the publish events: in every reachable
\* state it equals the number of messages sent so far on feed.publish (by
\* committed publish/append, prepend, publish_before, publish_after and edit
\* calls), and no step decrements it.
C14_PublishCounterCounts ==
    /\ [](feed_publishes = Len(feed_publish))
    /\ [][feed_publishes' >= feed_publishes]_vars

Reads == {"get_ids", "get_item", "get_items"}

\* In this step caller p runs one of the read methods.
ReadStep(p) ==
    /\ result'[p].call \in Reads
    /\ seen'[p].reads = seen[p].reads + 1

\* C15 -- reads: a get_ids, get_item or get_items changes no key, sends
\* nothing and touches no running call; what it returns is the committed
\* state of its key as the step finds it -- the whole of feed.ids in order,
\* the content feed.items holds for the id asked for (nothing when it holds
\* none), the whole of feed.items; and what a caller has seen changes in its
\* own reads only.  Two reads are two steps: the witness below is the
\* interleaving in which the second no longer finds what the first listed.
C15_ReadsAreSnapshots ==
    /\ [][\A p \in Procs :
            ReadStep(p) =>
                /\ UNCHANGED <<redis, pc, locals, watch, allocated, discarded>>
                /\ \A q \in Procs \ {p} : seen'[q] = seen[q] /\ result'[q] = result[q]
                /\ result'[p].how = "returned"
                /\ calls' = calls + 1
                /\ result'[p].call = "get_ids" =>
                       /\ seen'[p].ids = feed_ids
                       /\ seen'[p].item = seen[p].item
                       /\ seen'[p].items = seen[p].items
                /\ result'[p].call = "get_item" =>
                       /\ seen'[p].item = IF result'[p].id \in DOMAIN feed_items
                                          THEN feed_items[result'[p].id]
                                          ELSE NoItem
                       /\ seen'[p].ids = seen[p].ids
                       /\ seen'[p].items = seen[p].items
                /\ result'[p].call = "get_items" =>
                       /\ seen'[p].items = feed_items
                       /\ seen'[p].ids = seen[p].ids
                       /\ seen'[p].item = seen[p].item]_vars
    /\ [][\A p \in Procs : seen'[p] # seen[p] => ReadStep(p)]_vars

\* A reader's get_ids() listed id 1, another caller's retract(1) committed,
\* and the reader's get_item(1) then found nothing.
C15_Witness ==
    \E p, q \in Procs :
        /\ p # q
        /\ 1 \in Range(seen[p].ids)
        /\ result[p].call = "get_item" /\ result[p].id = 1
        /\ seen[p].item = NoItem
        /\ result[q].call = "retract" /\ result[q].how = "committed"
        /\ result[q].id = 1
        /\ feed_retract = <<1>>

\* Id n sits next to id a in list l, on the side m names.
Adjacent(l, n, a, m) ==
    \E k \in DOMAIN l :
        /\ l[k] = n
        /\ IF m = "BEFORE" THEN k < Len(l) /\ l[k + 1] = a
                           ELSE k > 1 /\ l[k - 1] = a

\* C16 -- publish_before / publish_after(X, c) racing retract(X): the id n
\* of an insert is never in feed.items while missing from feed.ids; the
\* insert commits only while X is in both stores, and then n lands next to
\* X and in feed.items; a retract that commits takes out its own id alone,
\* so n stays in both stores when X goes; an insert whose pipeline reaches
\* EXEC after X was removed is refused and writes nothing; and it gives up
\* exactly on a check that finds X gone and returns on its next step, n
\* then being in no store, published on no channel and dropped for good.
C16_InsertRetractRace ==
    /\ [](\A p \in Procs :
            result[p].call = "insert" =>
            LET n == result[p].id IN
            /\ n \in DOMAIN feed_items => n \in Range(feed_ids)
            /\ result[p].how = "noop" =>
                   /\ n \notin DOMAIN feed_items
                   /\ n \notin Range(feed_ids)
                   /\ n \notin PublishedIds
                   /\ n \in discarded
                   /\ result[p].ret = None
            /\ result[p].how = "running" =>
                   n \notin DOMAIN feed_items /\ n \notin Range(feed_ids))
    /\ [][\A p \in Procs :
            (Commits(p) /\ call[p] = "insert") =>
                /\ rel_id[p] \in DOMAIN feed_items
                /\ rel_id[p] \in Range(feed_ids)
                /\ rel_id[p] \notin Range(feed_retract)
                /\ Adjacent(feed_ids', id[p], rel_id[p], method[p])
                /\ id[p] \in DOMAIN feed_items']_vars
    /\ [][\A q \in Procs :
            (Commits(q) /\ call[q] = "retract") =>
                \A n \in DOMAIN feed_items \ {id[q]} :
                    /\ n \in DOMAIN feed_items' /\ feed_items'[n] = feed_items[n]
                    /\ n \in Range(feed_ids')]_vars
    /\ [][\A p \in Procs :
            (/\ Steps(p) /\ call[p] = "insert" /\ pc[p] = "execute"
             /\ rel_id[p] \notin DOMAIN feed_items) =>
                Conflicts(p) /\ UNCHANGED redis]_vars
    /\ [][\A p \in Procs :
            /\ (Steps(p) /\ call[p] = "insert" /\ pc[p] = "check") =>
                   /\ GivesUp(p) <=> rel_id[p] \notin DOMAIN feed_items
                   /\ UNCHANGED redis
            /\ (NoOps(p) /\ call[p] = "insert") =>
                   pc[p] = "unwatch" /\ UNCHANGED redis]_vars

\* The retract won: publish_after(1, c) passed its check, retract(1) then
\* committed, the insert's EXEC was refused, its second check found 1 gone.
C16_Witness ==
    \E p, q \in Procs :
        /\ result[p].call = "insert" /\ result[p].how = "noop"
        /\ result[p].retries = 1
        /\ result[q].call = "retract" /\ result[q].how = "committed"
        /\ result[q].id = 1
        /\ feed_retract = <<1>>
        /\ result[p].id \in discarded
        /\ feed_ids = <<>>

\* The insert won: it committed next to 1, retract(1) committed after it,
\* and the new id is still in both stores.
C16_InsertFirst ==
    \E p, q \in Procs :
        /\ result[p].call = "insert" /\ result[p].how = "committed"
        /\ result[q].call = "retract" /\ result[q].how = "committed"
        /\ result[q].id = 1 /\ result[p].id = 2
        /\ feed_ids = <<2>>
        /\ DOMAIN feed_items = {2}

\* C17 -- notifications of one id, in commit order: both channels only ever
\* grow, by one message a step and never both in one step; a retract
\* message for i is sent only after a publish message for i and only when
\* none was sent for i before (so the first message about an id is a
\* publish, and there is at most one retract); a publish message for i is
\* never sent once a retract message for i was (a late or retried edit
\* sends nothing); and an id with a retract message is in neither feed.ids
\* nor feed.items ever after.
C17_NotificationLifecycle ==
    /\ [][/\ feed_publish' # feed_publish =>
                /\ feed_retract' = feed_retract
                /\ \E i \in Ids, c \in Items :
                      /\ feed_publish' = Append(feed_publish, PublishMsg(i, c))
                      /\ i \notin Range(feed_retract)
          /\ feed_retract' # feed_retract =>
                /\ feed_publish' = feed_publish
                /\ \E i \in Ids :
                      /\ feed_retract' = Append(feed_retract, RetractMsg(i))
                      /\ i \in PublishedIds
                      /\ i \notin Range(feed_retract)]_vars
    /\ [](\A i \in Range(feed_retract) :
            /\ i \notin Range(feed_ids)
            /\ i \notin DOMAIN feed_items
            /\ i \in PublishedIds)
    /\ [](\A j, k \in DOMAIN feed_retract : j # k => feed_retract[j] # feed_retract[k])

\* publish("a") -> 1, edit(1, "b"), retract(1): two publish messages about
\* id 1, then its one retract message, and id 1 gone from both stores.
C17_Witness ==
    /\ feed_publish = <<PublishMsg(1, "a"), PublishMsg(1, "b")>>
    /\ feed_retract = <<RetractMsg(1)>>
    /\ feed_ids = <<>>
    /\ DOMAIN feed_items = {}
    /\ \E p \in Procs : /\ result[p].call = "retract" /\ result[p].how = "committed"
                        /\ result[p].id = 1

\* C18 -- no duplicates in the order: in every state reachable through
\* publish/append, prepend, publish_before, publish_after, edit and retract,
\* under any interleaving and any number of retries, no id occurs twice in
\* feed.ids.
C18_NoDuplicates ==
    \A j, k \in DOMAIN feed_ids : j # k => feed_ids[j] # feed_ids[k]

\* publish("a") -> 1, then publish_before(1, c) -> 2 whose first EXEC was
\* refused because of an edit(1, ...): the order is [2, 1], id 2 once.
C18_Witness ==
    /\ feed_ids = <<2, 1>>
    /\ \E p, q \in Procs :
          /\ result[p].call = "insert" /\ result[p].how = "committed"
          /\ result[p].retries = 1 /\ result[p].ret = 2
          /\ result[q].call = "edit" /\ result[q].how = "committed"

====
